---------------------------- MODULE Spec2Model ----------------------------
(***************************************************************************)
(* Model of the efficient-frontier page (src/unnamed/part_000, app.js).    *)
(*                                                                         *)
(* Four specifications share this module:                                  *)
(*   Spec      the session: the click handlers of setup() acting on the    *)
(*             global `state` object and on the weight inputs of the page, *)
(*             with every text the user can type into the point fields     *)
(*   SpecRun   the same handlers, with every text the user can type into   *)
(*             the risk-free and simulation-count fields                   *)
(*   SpecDraw  draw() and its helpers estimateFrontierFromCloud,           *)
(*             findMinVariance and findMaxSharpe on concrete clouds        *)
(*   SpecCov   computeCov on vectors and matrices of every small shape     *)
(*                                                                         *)
(* JavaScript numbers that can be NaN are tagged: <<n>> is the number n    *)
(* and <<>> is NaN.  Numbers typed by the user are fixed-point with two    *)
(* decimals (One = 1.00); products are kept exact and unnormalised.        *)
(***************************************************************************)
EXTENDS Integers, Sequences, FiniteSets, TLC

VARIABLES state, weightInputs, pending, out, drawCloud, drawRf, chart, covIn, covOut

vars == <<state, weightInputs, pending, out, drawCloud, drawRf, chart, covIn, covOut>>

(* ------------------------------ bounds -------------------------------- *)
MaxPending == 2
MaxPoints == 2
MaxCloud == 3
MaxDim == 2

(* ------------------------ JavaScript numbers -------------------------- *)
One == 100
NaN == <<>>
Num(n) == <<n>>
IsNaN(x) == x = NaN
Val(x) == x[1]

Add(a, b) == IF IsNaN(a) \/ IsNaN(b) THEN NaN ELSE Num(Val(a) + Val(b))
Sub(a, b) == IF IsNaN(a) \/ IsNaN(b) THEN NaN ELSE Num(Val(a) - Val(b))
Mul(a, b) == IF IsNaN(a) \/ IsNaN(b) THEN NaN ELSE Num(Val(a) * Val(b))
DivInt(a, k) == IF IsNaN(a) THEN NaN ELSE Num(Val(a) \div k)
Gt(a, b) == ~IsNaN(a) /\ ~IsNaN(b) /\ Val(a) > Val(b)
Lt(a, b) == ~IsNaN(a) /\ ~IsNaN(b) /\ Val(a) < Val(b)
MathAbs(a) == IF IsNaN(a) THEN NaN ELSE Num(IF Val(a) < 0 THEN -Val(a) ELSE Val(a))
MathMin(a, b) == IF IsNaN(a) \/ IsNaN(b) THEN NaN ELSE IF Val(a) < Val(b) THEN a ELSE b
MathMax(a, b) == IF IsNaN(a) \/ IsNaN(b) THEN NaN ELSE IF Val(a) > Val(b) THEN a ELSE b
MathSqrt(a) == [radicand |-> IF IsNaN(a) \/ Lt(a, Num(0)) THEN NaN ELSE a]

\* a[i] used in arithmetic: an index outside the array reads undefined, which
\* arithmetic turns into NaN (indices are 1-based here)
At(a, i) == IF i \in DOMAIN a THEN Num(a[i]) ELSE NaN
AtNum(a, i) == IF i \in DOMAIN a THEN a[i] ELSE NaN

(* --------------------- texts and their conversions -------------------- *)
\* a text is a sequence of one-character strings
Digits == {"0", "1", "2", "3", "4", "5", "6", "7", "8", "9"}
DigitVal(c) ==
  CASE c = "0" -> 0 [] c = "1" -> 1 [] c = "2" -> 2 [] c = "3" -> 3 [] c = "4" -> 4
    [] c = "5" -> 5 [] c = "6" -> 6 [] c = "7" -> 7 [] c = "8" -> 8 [] c = "9" -> 9

RECURSIVE TrimLeft(_)
TrimLeft(t) == IF t # <<>> /\ Head(t) = " " THEN TrimLeft(Tail(t)) ELSE t

RECURSIVE TrimRight(_)
TrimRight(t) ==
  IF t # <<>> /\ t[Len(t)] = " " THEN TrimRight(SubSeq(t, 1, Len(t) - 1)) ELSE t

\* the number of leading digits of t
RECURSIVE DigitRun(_)
DigitRun(t) == IF t # <<>> /\ Head(t) \in Digits THEN 1 + DigitRun(Tail(t)) ELSE 0

\* the value of a text of digits
RECURSIVE DigitsValue(_)
DigitsValue(t) ==
  IF t = <<>> THEN 0
  ELSE 10 * DigitsValue(SubSeq(t, 1, Len(t) - 1)) + DigitVal(t[Len(t)])

HasSign(t) == t # <<>> /\ Head(t) \in {"+", "-"}
SignOf(t) == IF t # <<>> /\ Head(t) = "-" THEN -1 ELSE 1
Unsigned(t) == IF HasSign(t) THEN Tail(t) ELSE t

\* parseInt(t, 10): leading blanks, a sign, then the longest run of digits;
\* NaN when there is no digit
ParseInt(t) ==
  LET body == Unsigned(TrimLeft(t))
      k == DigitRun(body)
  IN IF k = 0 THEN NaN
     ELSE Num(SignOf(TrimLeft(t)) * DigitsValue(SubSeq(body, 1, k)))

\* the two-decimal value of a fraction text ("", "5", "50", "333" -> 0, 50, 50, 33)
FracValue(f) ==
  IF f = <<>> THEN 0
  ELSE IF Len(f) = 1 THEN 10 * DigitVal(f[1])
  ELSE 10 * DigitVal(f[1]) + DigitVal(f[2])

\* Number(t) of a string: blanks trimmed, "" is 0, a decimal literal is its
\* value, anything else NaN.  The result is fixed-point (One = 1.00).
NumberOf(t) ==
  LET s == TrimRight(TrimLeft(t))
      body == Unsigned(s)
      k == DigitRun(body)
      rest == SubSeq(body, k + 1, Len(body))
      frac == IF rest # <<>> /\ Head(rest) = "." THEN Tail(rest) ELSE <<>>
      wellFormed ==
        /\ k + Len(frac) > 0
        /\ \/ rest = <<>>
           \/ Head(rest) = "." /\ DigitRun(frac) = Len(frac)
  IN IF s = <<>> THEN Num(0)
     ELSE IF ~wellFormed THEN NaN
     ELSE Num(SignOf(s) * (One * DigitsValue(SubSeq(body, 1, k)) + FracValue(frac)))

\* the decimal digits of a natural number
RECURSIVE NatText(_)
NatText(n) ==
  LET d == <<"0", "1", "2", "3", "4", "5", "6", "7", "8", "9">>
  IN IF n < 10 THEN <<d[n + 1]>> ELSE NatText(n \div 10) \o <<d[(n % 10) + 1]>>

\* x.toFixed(2) of a non-negative fixed-point number
ToFixed2(x) ==
  NatText(x \div One) \o <<".">> \o NatText((x % One) \div 10) \o NatText(x % 10)

\* `value || fallback` on a string: the empty string is falsy
OrElse(t, fallback) == IF t = <<>> THEN fallback ELSE t

(* ------------------------------ utilities ----------------------------- *)
clamp(x, lo, hi) == MathMax(lo, MathMin(hi, x))

RECURSIVE SumTo(_, _, _)
\* a.reduce((s, v, i) => s + v * b[i], 0) over the first k elements
SumTo(a, b, k) == IF k = 0 THEN Num(0) ELSE Add(SumTo(a, b, k - 1), Mul(a[k], At(b, k)))

dot(a, b) == SumTo(a, b, Len(a))

RECURSIVE Total(_, _)
Total(w, k) == IF k = 0 THEN Num(0) ELSE Add(Total(w, k - 1), w[k])

\* a result of a call that may throw
Returned(v) == [threw |-> FALSE, value |-> v]
Thrown == [threw |-> TRUE, value |-> <<>>]

RECURSIVE QuadTo(_, _, _)
\* the accumulation of portfolioVol over the first k index pairs, row-major
QuadTo(w, cov, k) ==
  IF k = 0 THEN Num(0)
  ELSE LET n == Len(w)
           i == ((k - 1) \div n) + 1
           j == ((k - 1) % n) + 1
       IN Add(QuadTo(w, cov, k - 1), Mul(Mul(w[i], AtNum(cov[i], j)), w[j]))

\* portfolioVol: cov[i][j] with cov[i] undefined is a TypeError
portfolioVol(w, cov) ==
  IF \E i \in 1..Len(w) : i \notin DOMAIN cov THEN Thrown
  ELSE Returned(MathSqrt(QuadTo(w, cov, Len(w) * Len(w))))

\* computeCov: corr[i][j] with corr[i] undefined is a TypeError; a missing
\* corr[i][j] gives NaN; rows and columns beyond vols.length are never read
computeCov(vols, corr) ==
  LET n == Len(vols)
  IN IF \E i \in 1..n : i \notin DOMAIN corr THEN Thrown
     ELSE Returned([i \in 1..n |->
            [j \in 1..n |-> Mul(Mul(Num(vols[i]), Num(vols[j])), At(corr[i], j))]])


(* ------------------------------ the data ------------------------------ *)
\* What Papa.parse returns for the three files (dynamicTyping: numbers are
\* numbers), first row a header, first column the asset's name.
\* FilesA: the two assets of the reference scenario, in percent.
FilesA ==
  [ret  |-> << <<"Asset", "Return">>, <<"A", 10>>, <<"B", 5>> >>,
   vol  |-> << <<"Asset", "Vol">>, <<"A", 20>>, <<"B", 10>> >>,
   corr |-> << <<"", "A", "B">>, <<"A", 1, 0>>, <<"B", 0, 1>> >>]
\* FilesB: a dataset of one asset
FilesB ==
  [ret  |-> << <<"Asset", "Return">>, <<"C", 8>> >>,
   vol  |-> << <<"Asset", "Vol">>, <<"C", 15>> >>,
   corr |-> << <<"", "C">>, <<"C", 1>> >>]
\* FilesC: two assets, and a correlation file that holds one row only
FilesC ==
  [ret  |-> << <<"Asset", "Return">>, <<"D", 7>>, <<"E", 3>> >>,
   vol  |-> << <<"Asset", "Vol">>, <<"D", 12>>, <<"E", 6>> >>,
   corr |-> << <<"", "D", "E">>, <<"D", 1, 0>> >>]
Served == <<FilesA, FilesB, FilesC>>

\* rows.slice(1)
Slice1(rows) == IF rows = <<>> THEN <<>> ELSE Tail(rows)

loadStaticData(files) ==
  [assets      |-> [k \in DOMAIN Slice1(files.ret) |-> Slice1(files.ret)[k][1]],
   meanReturns |-> [k \in DOMAIN Slice1(files.ret) |-> Slice1(files.ret)[k][2]],
   vols        |-> [k \in DOMAIN Slice1(files.vol) |-> Slice1(files.vol)[k][2]],
   corr        |-> [k \in DOMAIN Slice1(files.corr) |-> Slice1(Slice1(files.corr)[k])]]

(* ------------------------------ the inputs ---------------------------- *)
DefaultSims == <<"5", "0", "0", "0", "0">>
MinSims == 1000
MaxSims == 200000
\* what the user may have typed into #ef-sims and #ef-rf
SimsTexts == { <<>>, <<"5">>, <<"a", "b", "c">>, <<"3", "0", "0", "0", "0", "0">> }
RfTexts == { <<>>, <<"5">> }
\* what the user may have typed into #ef-rv-ret and #ef-rv-vol, as pairs
RVTexts ==
  { << <<"7">>, <<"7">> >>, << <<>>, <<"7">> >>, << <<"7">>, <<"x">> >>, << <<"x">>, <<>> >> }
\* what the user may have typed into the weight inputs (type=number: a number
\* or nothing), by the number of inputs
WeightTexts ==
  [n \in 1..2 |->
     IF n = 1 THEN { << <<>> >> }
     ELSE { << <<"6", "0">>, <<"4", "0">> >>, << <<"6", "0">>, <<"3", "0">> >> }]

(* ------------------------------ the session --------------------------- *)
\* state.cloud in Spec: the sampling loop pushes n points, each a random weight
\* vector of length k with ret = dot(w, meanReturns), vol = portfolioVol(w, cov)
\* and sharpe = (ret - rf) / vol.  The random points themselves are summarised
\* by `spread`: whether two of them differ in volatility, which random weights
\* over two or more assets give and weights over one asset (always [1]) or
\* none cannot.
EmptyCloud == [n |-> 0, k |-> 0, meanReturns |-> <<>>, cov |-> <<>>, rf |-> Num(0),
               spread |-> FALSE]
Sampled(n, k, mean, cov, rf) ==
  IF n = 0 THEN EmptyCloud
  ELSE [n |-> n, k |-> k, meanReturns |-> mean, cov |-> cov, rf |-> rf,
        spread |-> k >= 2]

NoAlert == "none"
NoError == "none"
\* what a handler showed (alert) and logged or died of (console)
Shown(alert, error) == [alert |-> alert, error |-> error]

\* draw() on the session's cloud: nothing is drawn for an empty cloud; a cloud
\* whose volatilities are all equal has an empty estimated frontier, so that
\* findMinVariance returns undefined and mark(mvp, ...) is a TypeError
drawThrows(st) == st.cloud.n > 0 /\ ~st.cloud.spread

\* the click handler of #ef-eq
eqInputs(st) ==
  IF Len(st.assets) = 0 THEN <<>>
  ELSE [i \in 1..Len(st.assets) |->
          \* (100 / n).toFixed(2): the quotient rounded to two decimals
          ToFixed2((2 * 100 * One + Len(st.assets)) \div (2 * Len(st.assets)))]

InitState ==
  [assets |-> <<>>, meanReturns |-> <<>>, vols |-> <<>>, corr |-> <<>>, cov |-> <<>>,
   rf |-> Num(0), cloud |-> EmptyCloud, userWeightPoints |-> <<>>, userRVPoints |-> <<>>]

\* a point object that is undefined
Undefined == [id |-> 0, ret |-> 0, vol |-> 0]
NoChart == [drawn |-> FALSE, frontier |-> <<>>, mvp |-> Undefined,
            maxSharpe |-> Undefined, error |-> NoError]
NoDraw ==
  /\ drawCloud = <<>> /\ drawRf = 0 /\ chart = NoChart
NoCovOut == [called |-> FALSE, threw |-> FALSE, value |-> <<>>]
NoCov ==
  /\ covIn = [vols |-> <<>>, corr |-> <<>>] /\ covOut = NoCovOut

InitSession ==
  /\ state = InitState
  /\ weightInputs = <<>>
  /\ pending = 0
  /\ out = Shown(NoAlert, NoError)

Init ==
  /\ InitSession
  /\ NoDraw
  /\ NoCov

OtherSpecs == UNCHANGED <<drawCloud, drawRf, chart, covIn, covOut>>

\* #ef-eq clicked by the user
EqClick ==
  /\ weightInputs' = eqInputs(state)
  /\ out' = Shown(NoAlert, NoError)
  /\ UNCHANGED <<state, pending>>
  /\ OtherSpecs

\* the user types into the weight inputs
TypeWeights ==
  /\ Len(weightInputs) \in DOMAIN WeightTexts
  /\ \E v \in WeightTexts[Len(weightInputs)] : weightInputs' = v
  /\ UNCHANGED <<state, pending, out>>
  /\ OtherSpecs

\* #ef-run clicked: the handler runs up to its await, the three fetches start
RunClick ==
  /\ pending < MaxPending
  /\ pending' = pending + 1
  /\ out' = Shown(NoAlert, NoError)
  /\ UNCHANGED <<state, weightInputs>>
  /\ OtherSpecs

runFailedDropsCloud(st) == [st EXCEPT !.cloud = EmptyCloud]
\* Promise.all rejects (a fetch failed or was not ok): the catch block
runFailedResult(st) == st

RunFetchFailed ==
  /\ pending > 0
  /\ pending' = pending - 1
  /\ state' = runFailedResult(state)
  /\ out' = Shown("Failed to load sample data", "Error")
  /\ UNCHANGED weightInputs
  /\ OtherSpecs

\* the loop count of `for (let i = 0; i < sims; i++)`: i < NaN is false
loopCount(sims) == IF IsNaN(sims) THEN 0 ELSE IF Val(sims) < 0 THEN 0 ELSE Val(sims)

simsOf(text) == clamp(ParseInt(OrElse(text, DefaultSims)), Num(MinSims), Num(MaxSims))

rfOf(text) == clamp(DivInt(NumberOf(text), 100), Num(0), Num(One))

\* the handler after the await, as far as it gets: the session it leaves, the
\* weight inputs it leaves and whether it ended in the catch block
runResult(st, inputs, data, rfText, simsText) ==
  LET s1 == [st EXCEPT !.assets = data.assets, !.meanReturns = data.meanReturns,
                       !.vols = data.vols, !.corr = data.corr]
      cv == computeCov(data.vols, data.corr)
      s2 == [s1 EXCEPT !.cov = cv.value, !.rf = rfOf(rfText)]
      n  == loopCount(simsOf(simsText))
      k  == Len(data.assets)
      sampleThrows == n > 0 /\ \E i \in 1..k : i \notin DOMAIN s2.cov
      s3 == [s2 EXCEPT !.cloud = Sampled(n, k, data.meanReturns, s2.cov, s2.rf)]
  IN IF cv.threw THEN [state |-> s1, inputs |-> inputs, caught |-> TRUE]
     ELSE IF sampleThrows THEN [state |-> s2, inputs |-> inputs, caught |-> TRUE]
     ELSE IF drawThrows(s3) THEN [state |-> s3, inputs |-> inputs, caught |-> TRUE]
     ELSE [state |-> s3, caught |-> FALSE,
           inputs |-> IF inputs = <<>> THEN eqInputs(s3) ELSE inputs]

\* the three fetches succeeded with files Served[f]: the rest of the handler
\* runs, reading rfText and simsText from the page
RunLoadedOf(f, rfText, simsText) ==
  /\ pending > 0
  /\ pending' = pending - 1
  /\ LET r == runResult(state, weightInputs, loadStaticData(Served[f]), rfText, simsText)
     IN /\ state' = r.state
        /\ weightInputs' = r.inputs
        /\ out' = IF r.caught THEN Shown("Failed to load sample data", "TypeError")
                  ELSE Shown(NoAlert, NoError)
  /\ OtherSpecs

\* the tolerance 1e-6 of the weight sum, as 1 / TolDen
TolDen == 1000000

\* inputs.map(inp => Number(inp.value || "0") / 100)
weightsOf(inputs) ==
  [i \in DOMAIN inputs |-> DivInt(NumberOf(OrElse(inputs[i], <<"0">>)), 100)]

\* Math.abs(sum - 1) > 1e-6
sumIsOff(sum) == Gt(Mul(MathAbs(Sub(sum, Num(One))), Num(TolDen)), Num(One))

\* the click handler of #ef-add-weights: the session it leaves, the alert it
\* shows and the error it dies of
addWeightsResult(st, inputs) ==
  LET w   == weightsOf(inputs)
      sum == Total(w, Len(w))
      ret == dot(w, st.meanReturns)
      pv  == portfolioVol(w, st.cov)
      s1  == [st EXCEPT !.userWeightPoints =
                Append(@, [ret |-> ret, vol |-> pv.value, w |-> w])]
  IN IF Len(st.assets) = 0
       THEN [state |-> st, out |-> Shown("Load data first.", NoError)]
     ELSE IF Len(inputs) = 0
       THEN [state |-> st, out |-> Shown("No weight inputs.", NoError)]
     ELSE IF sumIsOff(sum)
       THEN [state |-> st, out |-> Shown("Weights must sum to 100%.", NoError)]
     ELSE IF pv.threw
       THEN [state |-> st, out |-> Shown(NoAlert, "TypeError")]
     ELSE [state |-> s1,
           out |-> Shown(NoAlert, IF drawThrows(s1) THEN "TypeError" ELSE NoError)]

UserPoints == Len(state.userWeightPoints) + Len(state.userRVPoints)

AddWeights ==
  /\ UserPoints < MaxPoints
  /\ LET r == addWeightsResult(state, weightInputs)
     IN state' = r.state /\ out' = r.out
  /\ UNCHANGED <<weightInputs, pending>>
  /\ OtherSpecs

clearBothResult(st) == [st EXCEPT !.userWeightPoints = <<>>, !.userRVPoints = <<>>]
\* the click handler of #ef-clear-weights
clearWeightsResult(st) == [st EXCEPT !.userWeightPoints = <<>>]

ClearWeights ==
  /\ state' = clearWeightsResult(state)
  /\ out' = Shown(NoAlert, IF drawThrows(state') THEN "TypeError" ELSE NoError)
  /\ UNCHANGED <<weightInputs, pending>>
  /\ OtherSpecs

\* the click handler of #ef-add-rv
addRVResult(st, rText, vText) ==
  LET r  == DivInt(NumberOf(rText), 100)
      v  == DivInt(NumberOf(vText), 100)
      s1 == [st EXCEPT !.userRVPoints = Append(@, [ret |-> r, vol |-> v])]
  IN IF IsNaN(r) \/ IsNaN(v)
       THEN [state |-> st, out |-> Shown("Enter both return and volatility.", NoError)]
     ELSE [state |-> s1,
           out |-> Shown(NoAlert, IF drawThrows(s1) THEN "TypeError" ELSE NoError)]

AddRVOf(rText, vText) ==
  /\ UserPoints < MaxPoints
  /\ LET r == addRVResult(state, rText, vText)
     IN state' = r.state /\ out' = r.out
  /\ UNCHANGED <<weightInputs, pending>>
  /\ OtherSpecs

\* the click handler of #ef-clear-rv
clearRVResult(st) == [st EXCEPT !.userRVPoints = <<>>]

ClearRV ==
  /\ state' = clearRVResult(state)
  /\ out' = Shown(NoAlert, IF drawThrows(state') THEN "TypeError" ELSE NoError)
  /\ UNCHANGED <<weightInputs, pending>>
  /\ OtherSpecs

\* Spec: every text in the point fields, the run's fields left empty
RunLoaded == \E f \in DOMAIN Served : RunLoadedOf(f, <<>>, <<>>)
AddRV == \E rv \in RVTexts : AddRVOf(rv[1], rv[2])

Next ==
  \/ EqClick
  \/ TypeWeights
  \/ RunClick
  \/ RunFetchFailed
  \/ RunLoaded
  \/ AddWeights
  \/ ClearWeights
  \/ AddRV
  \/ ClearRV

Spec == Init /\ [][Next]_vars

\* SpecRun: every text in the run's fields, one text in the point fields
RunLoadedAny ==
  \E f \in DOMAIN Served, rfText \in RfTexts, simsText \in SimsTexts :
    RunLoadedOf(f, rfText, simsText)
AddRVSeven == AddRVOf(<<"7">>, <<"7">>)

NextRun ==
  \/ EqClick
  \/ RunClick
  \/ RunFetchFailed
  \/ RunLoadedAny
  \/ AddWeights
  \/ ClearWeights
  \/ AddRVSeven
  \/ ClearRV

SpecRun == Init /\ [][NextRun]_vars

(* ------------------------------ draw() -------------------------------- *)
\* SpecDraw: draw() on a concrete cloud.  A point is [id, ret, vol]: id is the
\* object's identity, its position in the cloud; ret and vol are whole numbers
\* (vol > 0) and the bin bounds minV + b * step are compared exactly.
bins == 120
Rets == {1, 2}
Vols == {10, 11, 20, 250}
Rfs == {0, 1}

RECURSIVE SeqsUpTo(_, _)
\* the sequences over S of length at most n
SeqsUpTo(S, n) ==
  IF n = 0 THEN {<<>>}
  ELSE LET shorter == SeqsUpTo(S, n - 1)
       IN shorter \cup {Append(q, x) : q \in {r \in shorter : Len(r) = n - 1}, x \in S}

Clouds ==
  {[i \in DOMAIN c |-> [id |-> i, ret |-> c[i][1], vol |-> c[i][2]]] :
     c \in SeqsUpTo(Rets \X Vols, MaxCloud)}

SetMin(S) == CHOOSE x \in S : \A y \in S : x <= y
SetMax(S) == CHOOSE x \in S : \A y \in S : x >= y
VolsOf(points) == {points[i].vol : i \in DOMAIN points}
RetsOf(points) == {points[i].ret : i \in DOMAIN points}

\* d.vol >= v0 && d.vol < v1 for bin b, v0 = minV + b * step, v1 = v0 + step,
\* step = (maxV - minV) / bins
InBin(d, b, minV, maxV) ==
  /\ bins * (d.vol - minV) >= b * (maxV - minV)
  /\ bins * (d.vol - minV) < (b + 1) * (maxV - minV)

Bucket(points, b) ==
  SelectSeq(points, LAMBDA d : InBin(d, b, SetMin(VolsOf(points)), SetMax(VolsOf(points))))

\* bucket.find(d => d.ret === d3.max(bucket, d => d.ret))
Winner(bucket) ==
  bucket[SetMin({i \in DOMAIN bucket : bucket[i].ret = SetMax(RetsOf(bucket))})]

RECURSIVE FrontierOver(_, _)
\* the winners of the bins B, pushed in the loop's order (b ascending); B is
\* the bins the loop does not skip
FrontierOver(points, B) ==
  IF B = {} THEN <<>>
  ELSE Append(FrontierOver(points, B \ {SetMax(B)}), Winner(Bucket(points, SetMax(B))))

\* the bins among 0..upTo whose bucket is not empty
Filled(points, upTo) == {b \in 0..upTo : Bucket(points, b) # <<>>}

RECURSIVE Insert(_, _)
\* x put into the sorted q behind every element whose vol is not larger
Insert(q, x) ==
  IF q = <<>> THEN <<x>>
  ELSE IF q[Len(q)].vol <= x.vol THEN Append(q, x)
  ELSE Append(Insert(SubSeq(q, 1, Len(q) - 1), x), q[Len(q)])

RECURSIVE SortByVol(_)
\* frontier.sort((a, b) => a.vol - b.vol), a stable sort
SortByVol(q) ==
  IF q = <<>> THEN <<>> ELSE Insert(SortByVol(SubSeq(q, 1, Len(q) - 1)), q[Len(q)])

estimateFrontierShort(points) ==
  SortByVol(FrontierOver(points, Filled(points, bins - 1)))
\* for (let b = 0; b <= bins; b++) { ... }; return frontier.sort(...)
estimateFrontierFromCloud(points) ==
  SortByVol(FrontierOver(points, Filled(points, bins)))

RECURSIVE MinVarTo(_, _)
\* points.reduce((best, d) => (d.vol < best.vol ? d : best), points[0]) over the
\* first k points; undefined for an empty array
MinVarTo(points, k) ==
  IF points = <<>> THEN Undefined
  ELSE IF k = 0 THEN points[1]
  ELSE LET best == MinVarTo(points, k - 1)
       IN IF points[k].vol < best.vol THEN points[k] ELSE best

findMinVariance(points) == MinVarTo(points, Len(points))

\* (d.ret - rf) / d.vol > (best.ret - rf) / best.vol, both volatilities positive
SharpeGt(d, best, rf) == (d.ret - rf) * best.vol > (best.ret - rf) * d.vol

RECURSIVE MaxSharpeTo(_, _, _)
MaxSharpeTo(points, rf, k) ==
  IF points = <<>> THEN Undefined
  ELSE IF k = 0 THEN points[1]
  ELSE LET best == MaxSharpeTo(points, rf, k - 1)
       IN IF SharpeGt(points[k], best, rf) THEN points[k] ELSE best

RECURSIVE MaxSharpeLastTo(_, _, _)
MaxSharpeLastTo(points, rf, k) ==
  IF points = <<>> THEN Undefined
  ELSE IF k = 0 THEN points[1]
  ELSE LET best == MaxSharpeLastTo(points, rf, k - 1)
       IN IF ~SharpeGt(best, points[k], rf) THEN points[k] ELSE best

findMaxSharpeLast(points, rf) == MaxSharpeLastTo(points, rf, Len(points))
findMaxSharpe(points, rf) == MaxSharpeTo(points, rf, Len(points))

\* draw(): nothing for an empty cloud; mark(mvp, ...) reads mvp.vol, a
\* TypeError when mvp is undefined
draw(points, rf) ==
  LET frontier == estimateFrontierFromCloud(points)
      mvp == findMinVariance(frontier)
  IN IF points = <<>> THEN [NoChart EXCEPT !.drawn = TRUE]
     ELSE [drawn |-> TRUE, frontier |-> frontier, mvp |-> mvp,
           maxSharpe |-> findMaxSharpe(points, rf),
           error |-> IF mvp = Undefined THEN "TypeError" ELSE NoError]

InitDraw ==
  /\ InitSession
  /\ NoCov
  /\ drawCloud \in Clouds
  /\ drawRf \in Rfs
  /\ chart = NoChart

Draw ==
  /\ ~chart.drawn
  /\ chart' = draw(drawCloud, drawRf)
  /\ UNCHANGED <<state, weightInputs, pending, out, drawCloud, drawRf, covIn, covOut>>

NextDraw == Draw

SpecDraw == InitDraw /\ [][NextDraw]_vars

(* ---------------------------- computeCov ------------------------------ *)
\* SpecCov: computeCov on every volatility vector of 1 to MaxDim entries and
\* every rows x cols correlation table of up to MaxDim + 1 rows and columns
VolValues == {10, 20}
Rhos == {0, 1}
CorrTable(rows, cols, rho) ==
  [i \in 1..rows |-> [j \in 1..cols |-> IF i = j THEN 1 ELSE rho]]

InitCov ==
  /\ InitSession
  /\ NoDraw
  /\ \E v \in SeqsUpTo(VolValues, MaxDim) \ {<<>>}, rows \in 0..(MaxDim + 1),
        cols \in 0..(MaxDim + 1), rho \in Rhos :
       covIn = [vols |-> v, corr |-> CorrTable(rows, cols, rho)]
  /\ covOut = NoCovOut

ComputeCov ==
  /\ ~covOut.called
  /\ covOut' = [called |-> TRUE, threw |-> computeCov(covIn.vols, covIn.corr).threw,
                value |-> computeCov(covIn.vols, covIn.corr).value]
  /\ UNCHANGED <<state, weightInputs, pending, out, drawCloud, drawRf, chart, covIn>>

NextCov == ComputeCov

SpecCov == InitCov /\ [][NextCov]_vars

(* ---------------------------- the properties --------------------------- *)
\* the loaded data and what is derived from it
Loaded(st) == <<st.assets, st.meanReturns, st.vols, st.corr, st.cov, st.rf, st.cloud>>

\* q is p with exactly one point appended
OneMore(p, q) == Len(q) = Len(p) + 1 /\ SubSeq(q, 1, Len(p)) = p

\* C1: when the data load of a run fails at a fetch, the handler leaves every
\* field of the session state as it was and shows one error notification.
C1_FailedFetchKeepsState ==
  [][RunFetchFailed => (state' = state /\ out'.alert = "Failed to load sample data")]_vars

\* a fetch failed in a session that holds a cloud of an earlier run
C1_Witness ==
  /\ out = Shown("Failed to load sample data", "Error")
  /\ state.cloud.n > 0
  /\ state.assets # <<>>

\* a text of digits only
AllDigits(t) == t # <<>> /\ DigitRun(t) = Len(t)

\* C2: whatever the simulation-count field holds, a run whose data load
\* succeeds (and whose covariance matrix is built) leaves a cloud of between
\* 1000 and 200000 points: the count typed, clamped to that range.
C2_SimsAlwaysClamped ==
  [][\A f \in DOMAIN Served, rfText \in RfTexts, simsText \in SimsTexts :
       (/\ RunLoadedOf(f, rfText, simsText)
        /\ ~computeCov(loadStaticData(Served[f]).vols, loadStaticData(Served[f]).corr).threw)
       => /\ state'.cloud.n \in MinSims..MaxSims
          /\ AllDigits(simsText) =>
               state'.cloud.n =
                 IF DigitsValue(simsText) < MinSims THEN MinSims
                 ELSE IF DigitsValue(simsText) > MaxSims THEN MaxSims
                 ELSE DigitsValue(simsText)]_vars

\* the percentages typed into the weight inputs sum to 100
SumsTo100(inputs) ==
  Total([i \in DOMAIN inputs |-> NumberOf(inputs[i])], Len(inputs)) = Num(100 * One)

\* C3: add-weights accepts the typed weights exactly when data is loaded, there
\* are weight inputs and they sum to 100; it then appends one point whose
\* return is the dot product with the current mean returns, and otherwise it
\* reports an error and changes nothing.
C3_AddWeightsExactlyOnSum ==
  [][AddWeights =>
       IF Len(state.assets) > 0 /\ Len(weightInputs) > 0 /\ SumsTo100(weightInputs)
       THEN /\ OneMore(state.userWeightPoints, state'.userWeightPoints)
            /\ state'.userWeightPoints[Len(state'.userWeightPoints)].ret =
                 dot(weightsOf(weightInputs), state.meanReturns)
            /\ state' = [state EXCEPT !.userWeightPoints = state'.userWeightPoints]
       ELSE state' = state /\ out'.alert # NoAlert]_vars

\* the field holds a number
HoldsNumber(t) == t # <<>> /\ ~IsNaN(NumberOf(t))

\* C4: the return/volatility entry appends a point only when both fields hold
\* a number; when either does not (an empty field included) it reports a
\* validation error and changes nothing.
C4_RVNeedsBothNumbers ==
  [][\A rv \in RVTexts :
       AddRVOf(rv[1], rv[2]) =>
         IF HoldsNumber(rv[1]) /\ HoldsNumber(rv[2])
         THEN /\ OneMore(state.userRVPoints, state'.userRVPoints)
              /\ state' = [state EXCEPT !.userRVPoints = state'.userRVPoints]
         ELSE state' = state /\ out'.alert # NoAlert]_vars

\* the points of the cloud in bin b
BinMembers(b) ==
  {drawCloud[i] : i \in {k \in DOMAIN drawCloud :
       InBin(drawCloud[k], b, SetMin(VolsOf(drawCloud)), SetMax(VolsOf(drawCloud)))}}

\* C5: the estimated frontier of a non-empty cloud consists of cloud points in
\* non-decreasing volatility order, one for each non-empty bin and none for an
\* empty one, each with the largest return among the cloud points of its bin.
C5_FrontierIsBinEnvelope ==
  (chart.drawn /\ drawCloud # <<>>) =>
    LET fr == chart.frontier
    IN /\ \A i \in DOMAIN fr : fr[i].id \in DOMAIN drawCloud /\ drawCloud[fr[i].id] = fr[i]
       /\ \A i \in DOMAIN fr : i > 1 => fr[i - 1].vol <= fr[i].vol
       /\ \A b \in 0..bins :
            LET here == {i \in DOMAIN fr : fr[i] \in BinMembers(b)}
            IN /\ Cardinality(here) = IF BinMembers(b) = {} THEN 0 ELSE 1
               /\ \A i \in here : \A d \in BinMembers(b) : fr[i].ret >= d.ret

\* a frontier of two points, one of them chosen among several points of its bin
\* that differ in return
C5_Witness ==
  /\ chart.drawn
  /\ Len(chart.frontier) = 2
  /\ \E b \in 0..bins : \E d, e \in BinMembers(b) : d.ret < e.ret

\* C6: for every non-empty cloud the marked minimum-variance point is a point
\* of the estimated frontier, no frontier point has a smaller volatility, and
\* it is the first frontier point of that volatility.
C6_MinVarianceOnFrontier ==
  (chart.drawn /\ drawCloud # <<>>) =>
    LET fr == chart.frontier
    IN \E i \in DOMAIN fr :
         /\ chart.mvp = fr[i]
         /\ \A j \in DOMAIN fr : fr[i].vol <= fr[j].vol
         /\ \A j \in DOMAIN fr : j < i => fr[j].vol > fr[i].vol

\* C7: for every non-empty cloud and risk-free rate, the maximum-Sharpe point
\* is a point of the cloud whose ratio (ret - rf) / vol no cloud point exceeds,
\* and every cloud point before it has a smaller ratio.
C7_MaxSharpeFirstBest ==
  (chart.drawn /\ drawCloud # <<>>) =>
    LET m == chart.maxSharpe
    IN /\ m.id \in DOMAIN drawCloud
       /\ drawCloud[m.id] = m
       /\ \A i \in DOMAIN drawCloud :
            (m.ret - drawRf) * drawCloud[i].vol >= (drawCloud[i].ret - drawRf) * m.vol
       /\ \A i \in DOMAIN drawCloud :
            i < m.id =>
              (m.ret - drawRf) * drawCloud[i].vol > (drawCloud[i].ret - drawRf) * m.vol

\* two points of different volatility share the largest ratio, and a point
\* with a smaller ratio comes first in the cloud
C7_Witness ==
  /\ chart.drawn
  /\ \E i, j \in DOMAIN drawCloud :
       /\ i < j
       /\ chart.maxSharpe = drawCloud[i]
       /\ drawCloud[i].vol # drawCloud[j].vol
       /\ (drawCloud[i].ret - drawRf) * drawCloud[j].vol =
            (drawCloud[j].ret - drawRf) * drawCloud[i].vol
       /\ i > 1

\* the correlation table is n x n
IsSquare(corr, n) == Len(corr) = n /\ \A i \in DOMAIN corr : Len(corr[i]) = n

\* C8: computeCov fails whenever the correlation table is not n x n for the n
\* volatilities given (too few rows, too many rows, rows of another length),
\* and otherwise returns cov[i][j] = vol[i] * vol[j] * corr[i][j].
C8_CovRejectsMismatch ==
  covOut.called =>
    IF IsSquare(covIn.corr, Len(covIn.vols))
    THEN /\ ~covOut.threw
         /\ Len(covOut.value) = Len(covIn.vols)
         /\ \A i, j \in DOMAIN covIn.vols :
              covOut.value[i][j] = Num(covIn.vols[i] * covIn.vols[j] * covIn.corr[i][j])
    ELSE covOut.threw

\* C9: an add keeps the list's earlier points and appends at most one (exactly
\* one when it reports nothing); a clear empties its own list; and no add or
\* clear touches the other list or the loaded data, covariance, risk-free rate
\* or cloud, nor does a run touch either list.
C9_PointListsIndependent ==
  [][/\ AddWeights =>
          /\ state'.userRVPoints = state.userRVPoints
          /\ Loaded(state') = Loaded(state)
          /\ \/ state'.userWeightPoints = state.userWeightPoints
             \/ OneMore(state.userWeightPoints, state'.userWeightPoints)
          /\ out' = Shown(NoAlert, NoError) =>
               OneMore(state.userWeightPoints, state'.userWeightPoints)
     /\ \A rv \in RVTexts :
          AddRVOf(rv[1], rv[2]) =>
            /\ state'.userWeightPoints = state.userWeightPoints
            /\ Loaded(state') = Loaded(state)
            /\ \/ state'.userRVPoints = state.userRVPoints
               \/ OneMore(state.userRVPoints, state'.userRVPoints)
            /\ out'.alert = NoAlert => OneMore(state.userRVPoints, state'.userRVPoints)
     /\ ClearWeights =>
          /\ state'.userWeightPoints = <<>>
          /\ state'.userRVPoints = state.userRVPoints
          /\ Loaded(state') = Loaded(state)
     /\ ClearRV =>
          /\ state'.userRVPoints = <<>>
          /\ state'.userWeightPoints = state.userWeightPoints
          /\ Loaded(state') = Loaded(state)
     /\ (RunClick \/ RunFetchFailed \/ RunLoaded) =>
          /\ state'.userWeightPoints = state.userWeightPoints
          /\ state'.userRVPoints = state.userRVPoints]_vars

\* the same point was added twice to the return/volatility list and both are kept
C9_Witness ==
  /\ Len(state.userRVPoints) = 2
  /\ state.userRVPoints[1] = state.userRVPoints[2]
  /\ state.userWeightPoints = <<>>
  /\ state.cloud.n > 0

\* C10: between handlers the loaded data, the covariance, the risk-free rate
\* and the cloud are those of one run: cov is the covariance of the current
\* vols and corr, and a cloud that holds points was sampled from the current
\* mean returns, covariance and risk-free rate.
C10_StateOfOneRun ==
  /\ ~computeCov(state.vols, state.corr).threw
  /\ state.cov = computeCov(state.vols, state.corr).value
  /\ Len(state.assets) = Len(state.vols)
  /\ state.cloud.n > 0 =>
       /\ state.cloud.k = Len(state.assets)
       /\ state.cloud.meanReturns = state.meanReturns
       /\ state.cloud.cov = state.cov
       /\ state.cloud.rf = state.rf

=============================================================================
